---- MODULE Spec2Model ----
(***************************************************************************)
(* Redundancy elimination over a set of blocklist patterns (optimize.py).  *)
(* Patterns are sequences of one-character strings.  The regex dialect is  *)
(* the one the patterns use: literals, `.', `.*', `?', `|', groups,        *)
(* character classes, the anchors `^' and `$' and backslash escapes.       *)
(***************************************************************************)
EXTENDS Integers, Sequences, FiniteSets, TLC

\* ------------------------------------------------------------------------
\* Bounds of the model
\* ------------------------------------------------------------------------
MaxStrLen == 4
MaxSimple == 3
MaxWords == 3
MaxCpu == 3

\* ------------------------------------------------------------------------
\* Characters and strings
\* ------------------------------------------------------------------------
\* The private-use character U+F000 of make_test_string_simple.  In subject
\* strings it also stands for any character that occurs in no pattern.
PUA == "#"

\* The characters of the strings patterns are matched against.
Sigma == {"a", "b", PUA}

RECURSIVE StringsOfLen(_)
StringsOfLen(n) ==
    IF n = 0 THEN {<<>>}
    ELSE {Append(s, c) : s \in StringsOfLen(n - 1), c \in Sigma}

Strings == UNION {StringsOfLen(n) : n \in 0..MaxStrLen}

\* str.startswith, str.endswith
StartsWith(s, t) == Len(t) <= Len(s) /\ SubSeq(s, 1, Len(t)) = t
EndsWith(s, t) == Len(t) <= Len(s) /\ SubSeq(s, Len(s) - Len(t) + 1, Len(s)) = t

\* `t in s' for strings
Contains(s, t) ==
    \E i \in 0..(Len(s) - Len(t)) : SubSeq(s, i + 1, i + Len(t)) = t

\* s[a:-b] (b > 0) of Python: empty when the two cuts overlap
Slice(s, a, b) == SubSeq(s, a + 1, Len(s) - b)

\* str.removeprefix, str.removesuffix
RemovePrefix(s, t) == IF StartsWith(s, t) THEN SubSeq(s, Len(t) + 1, Len(s)) ELSE s
RemoveSuffix(s, t) == IF EndsWith(s, t) THEN SubSeq(s, 1, Len(s) - Len(t)) ELSE s

\* str.replace(old, new): leftmost, non-overlapping occurrences
RECURSIVE Replace(_, _, _)
Replace(s, old, new) ==
    IF Len(s) = 0 THEN s
    ELSE IF StartsWith(s, old)
         THEN new \o Replace(SubSeq(s, Len(old) + 1, Len(s)), old, new)
         ELSE <<Head(s)>> \o Replace(Tail(s), old, new)

\* ------------------------------------------------------------------------
\* Regular expressions: the positions a piece of pattern p, read from index
\* i, can end at in subject s when started at any position of S.  Positions
\* count consumed characters, 0..Len(s).
\* ------------------------------------------------------------------------
At(p, i) == IF i <= Len(p) THEN p[i] ELSE "<end>"

RECURSIVE ClassEnd(_, _)
ClassEnd(p, i) == IF At(p, i) \in {"]", "<end>"} THEN i ELSE ClassEnd(p, i + 1)

Step(s, S, chars) == {k + 1 : k \in {j \in S : j < Len(s) /\ s[j + 1] \in chars}}

RECURSIVE ReAlt(_, _, _, _), ReConcat(_, _, _, _), ReItem(_, _, _, _),
          ReAtom(_, _, _, _), ReStar(_, _, _, _)

ReAtom(p, i, s, S) ==
    CASE At(p, i) = "(" ->
           LET r == ReAlt(p, i + 1, s, S) IN [next |-> r.next + 1, ends |-> r.ends]
      [] At(p, i) = "[" ->
           LET j == ClassEnd(p, i + 1) IN
           [next |-> j + 1, ends |-> Step(s, S, {p[k] : k \in (i + 1)..(j - 1)})]
      [] At(p, i) = "." -> [next |-> i + 1, ends |-> Step(s, S, Sigma)]
      [] At(p, i) = "^" -> [next |-> i + 1, ends |-> S \cap {0}]
      [] At(p, i) = "$" -> [next |-> i + 1, ends |-> S \cap {Len(s)}]
      [] At(p, i) = "\\" -> [next |-> i + 2, ends |-> Step(s, S, {At(p, i + 1)})]
      [] OTHER -> [next |-> i + 1, ends |-> Step(s, S, {At(p, i)})]

ReStar(p, i, s, S) ==
    LET n == S \cup ReAtom(p, i, s, S).ends IN
    IF n = S THEN S ELSE ReStar(p, i, s, n)

ReItem(p, i, s, S) ==
    LET a == ReAtom(p, i, s, S) IN
    CASE At(p, a.next) = "?" -> [next |-> a.next + 1, ends |-> a.ends \cup S]
      [] At(p, a.next) = "*" -> [next |-> a.next + 1, ends |-> ReStar(p, i, s, S)]
      [] OTHER -> a

ReConcat(p, i, s, S) ==
    IF At(p, i) \in {"|", ")", "<end>"} THEN [next |-> i, ends |-> S]
    ELSE LET a == ReItem(p, i, s, S) IN ReConcat(p, a.next, s, a.ends)

ReAlt(p, i, s, S) ==
    LET c == ReConcat(p, i, s, S) IN
    IF At(p, c.next) = "|"
    THEN LET r == ReAlt(p, c.next + 1, s, S) IN
         [next |-> r.next, ends |-> c.ends \cup r.ends]
    ELSE c

\* re.match(pattern, string): a match that starts at the start of the string
\* and may end anywhere
ReMatch(p, s) == ReAlt(p, 1, s, {0}).ends # {}

\* greenery: the pattern describes whole strings
Accepts(g, s) == Len(s) \in ReAlt(g, 1, s, {0}).ends

\* ------------------------------------------------------------------------
\* Helper methods of optimize.py
\* ------------------------------------------------------------------------
\* make_test_string_simple: anchors stripped, escapes undone, every `.*'
\* replaced by the private-use character
make_test_string_simple(pattern) ==
    Replace(Replace(Replace(RemoveSuffix(RemovePrefix(pattern, <<"^">>), <<"$">>),
                            <<"\\", ".">>, <<".">>),
                    <<"\\", "$">>, <<"$">>),
            <<".", "*">>, <<PUA>>)

\* clean_pattern: the format greenery expects
clean_pattern(pattern) ==
    Replace(Replace(RemoveSuffix(RemovePrefix(pattern, <<"^">>), <<"$">>),
                    <<"\\", "^">>, <<"^">>),
            <<"\\", "$">>, <<"$">>)

\* The order greenery enumerates strings in: by length, then by character.
CharRank(c) == CASE c = "a" -> 1 [] c = "b" -> 2 [] OTHER -> 3

ShortLexLess(s, t) ==
    \/ Len(s) < Len(t)
    \/ /\ Len(s) = Len(t)
       /\ \E i \in 1..Len(s) :
            /\ CharRank(s[i]) < CharRank(t[i])
            /\ \A j \in 1..(i - 1) : s[j] = t[j]

\* itertools.islice(it, n): the first n strings of a language
FirstStrings(L, n) ==
    {s \in L : Cardinality({t \in L : ShortLexLess(t, s)}) < n}

\* The number of test strings make_test_strings_complicated is asked for
NTestStrings == 2

\* make_test_strings_complicated: strings of the pattern with `.*' elided
make_test_strings_complicated(pattern) ==
    LET g == clean_pattern(Replace(pattern, <<".", "*">>, <<>>)) IN
    FirstStrings({s \in Strings : Accepts(g, s)}, NTestStrings)

\* The characters line 52 does not count as literal
MetaChars == {"^", "$", "[", "]", "(", ")", "|", "?", ".", "*"}

Range(s) == {s[i] : i \in 1..Len(s)}

SharedLiterals(word, sub) == (Range(word) \cap Range(sub)) \ MetaChars

\* Pattern.equivalent of greenery: the two patterns describe the same strings
Equivalent(g1, g2) == \A s \in Strings : Accepts(g1, s) <=> Accepts(g2, s)

\* One pass of the loop body of check_words_complicated_helper: whether
\* `sub' makes the helper return (lines 50-59)
IsCover(word, sub) ==
    /\ word # sub
    /\ SharedLiterals(word, sub) # {}
    /\ \A t \in make_test_strings_complicated(word) : ReMatch(sub, t)
    /\ Equivalent(clean_pattern(word) \o <<"|">> \o clean_pattern(sub),
                  clean_pattern(sub))

\* main, line 172
IsComplicated(word) == Range(word) \cap {"[", "]", "(", ")", "|", "?"} # {}

\* ------------------------------------------------------------------------
\* The four shapes of a simple pattern (check_words_simple, lines 79-95)
\* ------------------------------------------------------------------------
DotStar == <<".", "*">>

IsAnywhere(word) == EndsWith(word, DotStar) /\ StartsWith(word, DotStar)
IsPrefix(word) ==
    EndsWith(word, DotStar) /\ ~StartsWith(word, DotStar) /\ StartsWith(word, <<"^">>)
IsSuffix(word) ==
    ~EndsWith(word, DotStar) /\ EndsWith(word, <<"$">>) /\ StartsWith(word, DotStar)
IsWhole(word) ==
    /\ ~EndsWith(word, DotStar) /\ EndsWith(word, <<"$">>)
    /\ ~StartsWith(word, DotStar) /\ StartsWith(word, <<"^">>)

\* The patterns check_words_simple raises ValueError on
Malformed(word) == ~(IsAnywhere(word) \/ IsPrefix(word) \/ IsSuffix(word) \/ IsWhole(word))

AnywhereCores(simple) == {Slice(w, 2, 2) : w \in {v \in simple : IsAnywhere(v)}}
PrefixCores(simple) == {Slice(w, 1, 2) : w \in {v \in simple : IsPrefix(v)}}
SuffixCores(simple) == {Slice(w, 2, 1) : w \in {v \in simple : IsSuffix(v)}}
WholeCores(simple) == {Slice(w, 1, 1) : w \in {v \in simple : IsWhole(v)}}

\* The pattern a shape and a core are written back as (lines 101-125)
Anywhere(core) == DotStar \o core \o DotStar
Prefix(core) == <<"^">> \o core \o DotStar
Suffix(core) == DotStar \o core \o <<"$">>
Whole(core) == <<"^">> \o core \o <<"$">>

\* Line 99: a strictly shorter Anywhere core is a substring of the word
AnywhereShorterLenient(word, anywhere) ==
    \E sub \in anywhere : Len(sub) <= Len(word) /\ Contains(word, sub)
AnywhereShorter(word, anywhere) ==
    \E sub \in anywhere : Len(sub) < Len(word) /\ Contains(word, sub)

\* Lines 103, 110, 117: an Anywhere core no longer than the word is a substring
AnywhereWithin(word, anywhere) ==
    \E sub \in anywhere : Len(sub) <= Len(word) /\ Contains(word, sub)

\* check_words_simple: the redundant simple patterns
check_words_simple(simple) ==
    LET anywhere == AnywhereCores(simple)
        prefix == PrefixCores(simple)
        suffix == SuffixCores(simple)
        whole == WholeCores(simple)
    IN    {Anywhere(word) : word \in {w \in anywhere : AnywhereShorter(w, anywhere)}}
     \cup {Prefix(word) : word \in {w \in prefix :
              \/ AnywhereWithin(w, anywhere)
              \/ \E sub \in prefix : Len(sub) < Len(w) /\ StartsWith(w, sub)}}
     \cup {Suffix(word) : word \in {w \in suffix :
              \/ AnywhereWithin(w, anywhere)
              \/ \E sub \in suffix : Len(sub) < Len(w) /\ EndsWith(w, sub)}}
     \cup {Whole(word) : word \in {w \in whole :
              \/ AnywhereWithin(w, anywhere)
              \/ \E sub \in prefix : Len(sub) <= Len(w) /\ StartsWith(w, sub)
              \/ \E sub \in suffix : Len(sub) <= Len(w) /\ EndsWith(w, sub)}}

\* check_words_simple_complicated: the simple patterns whose test string
\* some complicated pattern matches
check_words_simple_complicated(simple, complicated) ==
    {word \in simple :
        \E sub \in complicated : ReMatch(sub, make_test_string_simple(word))}

\* ------------------------------------------------------------------------
\* The pattern sets load_words can return
\* ------------------------------------------------------------------------
\* Simple patterns of the four shapes over these cores, the bare `.*' and a
\* pattern with no leading anchor
SimpleCores == {<<>>, <<"a">>, <<"b">>, <<"a", "b">>, <<"b", "a">>, <<"a", "a">>}

SimpleUniverse ==
    UNION {{Anywhere(c), Prefix(c), Suffix(c), Whole(c)} : c \in SimpleCores}
    \cup {DotStar, <<"a", "$">>}

\* Simple and complicated patterns of a full run
Universe ==
    { <<".", "*", "a", ".", "*">>,                    \* .*a.*
      <<"^", "a", ".", "*">>,                         \* ^a.*
      <<"^", "a", "b", "$">>,                         \* ^ab$
      <<"^", "a", ".", "*", "$">>,                    \* ^a.*$
      <<"^", "a", "b", ".", "*">>,                    \* ^ab.*
      <<"^", "(", "a", "|", "a", "b", ")", "$">>,     \* ^(a|ab)$
      <<"^", "(", "a", "|", "b", ")", "$">>,          \* ^(a|b)$
      <<"^", "[", "a", "b", "]", "$">>,               \* ^[ab]$
      <<"^", "a", ".", "?", "$">>,                    \* ^a.?$
      <<"^", "(", "a", "|", "b", ")", "b", ".", "*">>,\* ^(a|b)b.*
      <<"^", "(", "a", "|", "b", ")", "b", "?", "$">> \* ^(a|b)b?$
    }

\* Complicated patterns alone, for the worker pool
PoolUniverse ==
    { <<"^", "(", "a", "|", "b", ")", "$">>,          \* ^(a|b)$
      <<"^", "[", "a", "b", "]", "$">>,               \* ^[ab]$
      <<"^", "a", ".", "?", "$">>,                    \* ^a.?$
      <<"^", "(", "a", "|", "b", ")", "b", "?", "$">> \* ^(a|b)b?$
    }

RECURSIVE SubsetsUpTo(_, _)
SubsetsUpTo(U, n) ==
    IF n = 0 THEN {{}}
    ELSE LET smaller == SubsetsUpTo(U, n - 1) IN
         smaller \cup {S \cup {x} : S \in smaller, x \in U}

\* The strings a pattern flags (re.match), among the strings of the model
Lang == [p \in SimpleUniverse \cup Universe |-> {s \in Strings : ReMatch(p, s)}]

UnionLang(ps) == UNION {Lang[p] : p \in ps}

\* The patterns of `other' that make check_words_complicated_helper return
CoverOf ==
    [word \in {p \in Universe : IsComplicated(p)} |->
        {sub \in {p \in Universe : IsComplicated(p)} : IsCover(word, sub)}]

None == <<"None">>

\* check_words_complicated_helper: the values it can return; which cover it
\* meets first depends on the iteration order of the set
check_words_complicated_helper(word, other) ==
    IF CoverOf[word] \cap other = {} THEN {None} ELSE CoverOf[word] \cap other

\* ------------------------------------------------------------------------
\* State
\* ------------------------------------------------------------------------
VARIABLES
    input,            \* the patterns load_words returned
    words,            \* main's working set
    complicated,      \* main's complicated set
    simpleRedundant,  \* what check_words_simple returned
    crossRedundant,   \* what check_words_simple_complicated returned
    redundant,        \* the set check_words_complicated accumulates
    mpc,              \* where main (and the coordinator) is
    cpu,              \* os.cpu_count()
    failing,          \* the words whose check raises in a worker
    tasks,            \* the task queue
    results,          \* the result queue
    wpc,              \* where each worker is
    wword,            \* the word each worker holds
    submitted,        \* workers submitted so far
    collected,        \* results collected so far
    output,           \* the output file
    run,              \* 1: first run, 2: the run on the first run's output
    firstOutput,      \* the first run's output
    failed            \* a worker has raised

vars == <<input, words, complicated, simpleRedundant, crossRedundant, redundant,
          mpc, cpu, failing, tasks, results, wpc, wword, submitted, collected,
          output, run, firstOutput, failed>>

\* The falsy value that ends a worker's loop (line 64, line 153)
Sentinel == <<>>

NoFile == [written |-> FALSE, lines |-> {}]

WorkerIds == 1..(MaxCpu - 1)

\* Line 145
PoolWorkers(n) == n - 1

\* sorted(complicated, key=len): any order with ascending lengths
RECURSIVE Orders(_)
Orders(S) ==
    IF S = {} THEN {<<>>}
    ELSE UNION {{<<x>> \o rest : rest \in Orders(S \ {x})} : x \in S}

SortedOrders(S) ==
    {o \in Orders(S) : \A i \in 1..(Len(o) - 1) : Len(o[i]) <= Len(o[i + 1])}

\* Line 154: the set each worker is given
SnapshotMoving(comp, removed) == comp \ removed
Snapshot(comp, removed) == comp

\* Line 156: the number of results the coordinator waits for
ResultsWantedOffByOne(comp) == Cardinality(comp) - 1
ResultsWanted(comp) == Cardinality(comp)

\* Line 67: what a failing worker puts on the result queue
ForwardedSwallowed(word) == <<>>
Forwarded(word) == <<[kind |-> "exc", word |-> word, cover |-> None]>>

Idle ==
    /\ complicated = {}
    /\ simpleRedundant = {}
    /\ crossRedundant = {}
    /\ redundant = {}
    /\ tasks = <<>>
    /\ results = <<>>
    /\ wpc = [i \in WorkerIds |-> "unstarted"]
    /\ wword = [i \in WorkerIds |-> Sentinel]
    /\ submitted = 0
    /\ collected = 0
    /\ output = NoFile
    /\ failed = FALSE

Init ==
    /\ input = {}
    /\ words = {}
    /\ cpu = 1
    /\ failing = {}
    /\ mpc = "start"
    /\ run = 1
    /\ firstOutput = {}
    /\ Idle

\* ------------------------------------------------------------------------
\* main
\* ------------------------------------------------------------------------
\* Line 167: load_words returns the patterns; the machine has some number of
\* processors, and some complicated words make their check raise
MainLoad ==
    /\ mpc = "start"
    /\ input' \in SubsetsUpTo(Universe, MaxWords)
    /\ words' = input'
    /\ cpu' \in 1..MaxCpu
    /\ failing' \in SUBSET {w \in input' : IsComplicated(w)}
    /\ mpc' = "load"
    /\ UNCHANGED <<complicated, simpleRedundant, crossRedundant, redundant, tasks,
                   results, wpc, wword, submitted, collected, output, run, firstOutput,
                   failed>>

\* Line 167, for the worker pool alone: only complicated patterns are loaded
MainLoadPool ==
    /\ mpc = "start"
    /\ input' \in SubsetsUpTo(PoolUniverse, MaxWords)
    /\ words' = input'
    /\ cpu' \in 1..MaxCpu
    /\ failing' \in SUBSET input'
    /\ mpc' = "load"
    /\ UNCHANGED <<complicated, simpleRedundant, crossRedundant, redundant, tasks,
                   results, wpc, wword, submitted, collected, output, run, firstOutput,
                   failed>>

\* Line 167, for check_words_simple alone: only simple patterns are loaded
MainLoadSimple ==
    /\ mpc = "start"
    /\ input' \in SubsetsUpTo(SimpleUniverse, MaxSimple)
    /\ words' = input'
    /\ mpc' = "load"
    /\ UNCHANGED <<complicated, simpleRedundant, crossRedundant, redundant, cpu, failing,
                   tasks, results, wpc, wword, submitted, collected, output, run,
                   firstOutput, failed>>

\* Lines 170-178: classify, then the simple stage
MainSimple ==
    /\ mpc = "load"
    /\ LET comp == {w \in words : IsComplicated(w)} IN
       /\ complicated' = comp
       /\ IF \E w \in words \ comp : Malformed(w)
          THEN /\ mpc' = "crashed"
               /\ UNCHANGED <<words, simpleRedundant>>
          ELSE /\ simpleRedundant' = check_words_simple(words \ comp)
               /\ words' = words \ check_words_simple(words \ comp)
               /\ mpc' = IF comp = {} THEN "write" ELSE "cross"
    /\ UNCHANGED <<input, crossRedundant, redundant, cpu, failing, tasks, results,
                   wpc, wword, submitted, collected, output, run, firstOutput, failed>>

\* Lines 180-183: the cross stage
MainCross ==
    /\ mpc = "cross"
    /\ LET found == check_words_simple_complicated(words \ complicated, complicated) IN
       /\ crossRedundant' = found
       /\ words' = words \ found
    /\ mpc' = "pool"
    /\ UNCHANGED <<input, complicated, simpleRedundant, redundant, cpu, failing, tasks,
                   results, wpc, wword, submitted, collected, output, run, firstOutput,
                   failed>>

\* Lines 143-151: the executor is built (ValueError when max_workers <= 0),
\* the words are queued by ascending length
PoolStart ==
    /\ mpc = "pool"
    /\ redundant' = {}
    /\ IF PoolWorkers(cpu) <= 0
       THEN /\ mpc' = "crashed"
            /\ UNCHANGED <<tasks, results>>
       ELSE /\ tasks' \in SortedOrders(complicated)
            /\ results' = <<>>
            /\ mpc' = "submit"
    /\ UNCHANGED <<input, words, complicated, simpleRedundant, crossRedundant, cpu,
                   failing, wpc, wword, submitted, collected, output, run, firstOutput,
                   failed>>

\* Lines 152-154: one sentinel and one worker per iteration
PoolSubmit ==
    /\ mpc = "submit"
    /\ tasks' = Append(tasks, Sentinel)
    /\ wpc' = [wpc EXCEPT ![submitted + 1] = "get"]
    /\ submitted' = submitted + 1
    /\ mpc' = IF submitted + 1 = PoolWorkers(cpu) THEN "collect" ELSE "submit"
    /\ UNCHANGED <<input, words, complicated, simpleRedundant, crossRedundant, redundant,
                   cpu, failing, results, wword, collected, output, run, firstOutput,
                   failed>>

\* Lines 156-163: one results.get()
PoolCollect ==
    /\ mpc = "collect"
    /\ results # <<>>
    /\ results' = Tail(results)
    /\ IF Head(results).kind = "exc"
       THEN /\ mpc' = "raising"
            /\ UNCHANGED <<redundant, collected>>
       ELSE /\ redundant' = IF Head(results).cover # None
                            THEN redundant \cup {Head(results).word}
                            ELSE redundant
            /\ collected' = collected + 1
            /\ mpc' = IF collected + 1 >= ResultsWanted(complicated)
                      THEN "exit" ELSE "collect"
    /\ UNCHANGED <<input, words, complicated, simpleRedundant, crossRedundant, cpu,
                   failing, tasks, wpc, wword, submitted, output, run, firstOutput,
                   failed>>

WorkersFinished == \A i \in WorkerIds : wpc[i] \in {"unstarted", "done"}

\* Lines 146, 164, 186: the executor is shut down (it waits for its workers),
\* the redundant set is returned and subtracted
PoolReturn ==
    /\ mpc = "exit"
    /\ WorkersFinished
    /\ words' = words \ redundant
    /\ mpc' = "write"
    /\ UNCHANGED <<input, complicated, simpleRedundant, crossRedundant, redundant, cpu,
                   failing, tasks, results, wpc, wword, submitted, collected, output,
                   run, firstOutput, failed>>

\* Lines 146, 159: the executor is shut down and the worker's exception leaves main
PoolRaise ==
    /\ mpc = "raising"
    /\ WorkersFinished
    /\ mpc' = "crashed"
    /\ UNCHANGED <<input, words, complicated, simpleRedundant, crossRedundant, redundant,
                   cpu, failing, tasks, results, wpc, wword, submitted, collected,
                   output, run, firstOutput, failed>>

\* Lines 189-190
MainWrite ==
    /\ mpc = "write"
    /\ output' = [written |-> TRUE, lines |-> words]
    /\ mpc' = "done"
    /\ UNCHANGED <<input, words, complicated, simpleRedundant, crossRedundant, redundant,
                   cpu, failing, tasks, results, wpc, wword, submitted, collected,
                   run, firstOutput, failed>>

\* main is run again, on the patterns the first run wrote
Rerun ==
    /\ mpc = "done"
    /\ run = 1
    /\ run' = 2
    /\ firstOutput' = output.lines
    /\ words' = output.lines
    /\ mpc' = "load"
    /\ complicated' = {}
    /\ simpleRedundant' = {}
    /\ crossRedundant' = {}
    /\ redundant' = {}
    /\ tasks' = <<>>
    /\ results' = <<>>
    /\ wpc' = [i \in WorkerIds |-> "unstarted"]
    /\ wword' = [i \in WorkerIds |-> Sentinel]
    /\ submitted' = 0
    /\ collected' = 0
    /\ output' = NoFile
    /\ UNCHANGED <<input, cpu, failing, failed>>

\* ------------------------------------------------------------------------
\* check_words_complicated_worker
\* ------------------------------------------------------------------------
\* Line 64: q_todo.get()
WorkerGet(i) ==
    /\ wpc[i] = "get"
    /\ tasks # <<>>
    /\ tasks' = Tail(tasks)
    /\ IF Head(tasks) = Sentinel
       THEN /\ wpc' = [wpc EXCEPT ![i] = "done"]
            /\ UNCHANGED wword
       ELSE /\ wpc' = [wpc EXCEPT ![i] = "check"]
            /\ wword' = [wword EXCEPT ![i] = Head(tasks)]
    /\ UNCHANGED <<input, words, complicated, simpleRedundant, crossRedundant, redundant,
                   mpc, cpu, failing, results, submitted, collected, output, run,
                   firstOutput, failed>>

\* Line 65: the word is checked and its result queued
WorkerCheck(i) ==
    /\ wpc[i] = "check"
    /\ wword[i] \notin failing
    /\ \E cover \in check_words_complicated_helper(wword[i], Snapshot(complicated, redundant)) :
          results' = Append(results, [kind |-> "ok", word |-> wword[i], cover |-> cover])
    /\ wpc' = [wpc EXCEPT ![i] = "get"]
    /\ UNCHANGED <<input, words, complicated, simpleRedundant, crossRedundant, redundant,
                   mpc, cpu, failing, tasks, wword, submitted, collected, output, run,
                   firstOutput, failed>>

\* Lines 66-67: the check raised; the exception is queued and the worker ends
WorkerRaise(i) ==
    /\ wpc[i] = "check"
    /\ wword[i] \in failing
    /\ results' = results \o Forwarded(wword[i])
    /\ wpc' = [wpc EXCEPT ![i] = "done"]
    /\ failed' = TRUE
    /\ UNCHANGED <<input, words, complicated, simpleRedundant, crossRedundant, redundant,
                   mpc, cpu, failing, tasks, wword, submitted, collected, output, run,
                   firstOutput>>

Next ==
    \/ MainLoad
    \/ MainSimple
    \/ MainCross
    \/ PoolStart
    \/ PoolSubmit
    \/ PoolCollect
    \/ PoolReturn
    \/ PoolRaise
    \/ MainWrite
    \/ Rerun
    \/ \E i \in WorkerIds : WorkerGet(i)
    \/ \E i \in WorkerIds : WorkerCheck(i)
    \/ \E i \in WorkerIds : WorkerRaise(i)

Spec == Init /\ [][Next]_vars

\* One run of main on complicated patterns
NextPool ==
    \/ MainLoadPool
    \/ MainSimple
    \/ MainCross
    \/ PoolStart
    \/ PoolSubmit
    \/ PoolCollect
    \/ PoolReturn
    \/ PoolRaise
    \/ MainWrite
    \/ \E i \in WorkerIds : WorkerGet(i)
    \/ \E i \in WorkerIds : WorkerCheck(i)
    \/ \E i \in WorkerIds : WorkerRaise(i)

\* The coordinator and the worker processes are scheduled by the operating
\* system: a step of the pool that stays possible is eventually taken
FairSpec ==
    /\ Init
    /\ [][NextPool]_vars
    /\ WF_vars(PoolSubmit)
    /\ WF_vars(PoolCollect)
    /\ WF_vars(PoolRaise)
    /\ \A i \in WorkerIds :
          WF_vars(WorkerGet(i)) /\ WF_vars(WorkerCheck(i)) /\ WF_vars(WorkerRaise(i))

\* check_words_simple alone, on sets of simple patterns
NextSimple ==
    \/ MainLoadSimple
    \/ MainSimple
    \/ MainWrite

SpecSimple == Init /\ [][NextSimple]_vars

\* ------------------------------------------------------------------------
\* Properties
\* ------------------------------------------------------------------------
\* The patterns of the four shapes with a literal core
FourShapes == UNION {{Anywhere(c), Prefix(c), Suffix(c), Whole(c)} : c \in SimpleCores}

\* What check_words_complicated returns when every word is checked against
\* the whole complicated set
ExpectedRedundant(comp) == {w \in comp : CoverOf[w] \cap comp # {}}

\* C1: soundness of the full reduction: the patterns written flag exactly the
\* strings the loaded patterns flag.
Soundness ==
    (mpc = "done" /\ run = 1) => UnionLang(output.lines) = UnionLang(input)

\* C2: minimality of the full reduction: no pattern written flags only strings
\* that another pattern written flags, a complicated pattern under a simple
\* one included.
Minimality ==
    mpc = "done" =>
        \A p, q \in output.lines : p # q => ~(Lang[p] \subseteq Lang[q])

\* C3: idempotence of the full reduction: the run on the first run's output
\* writes that output again.
Idempotence ==
    (mpc = "done" /\ run = 2) => output.lines = firstOutput

\* A second run has finished, through the worker pool, after a first run
\* that removed a complicated pattern.
IdempotenceWitness ==
    /\ mpc = "done"
    /\ run = 2
    /\ complicated # {}
    /\ \E w \in input \ firstOutput : IsComplicated(w)

\* C4: of two distinct complicated patterns with the same language exactly one
\* is in the set check_words_complicated returns.
ExactlyOneSurvives ==
    (mpc = "write" /\ complicated # {}) =>
        \A p, q \in complicated :
            (p # q /\ Lang[p] = Lang[q]) => ((p \in redundant) # (q \in redundant))

\* C5: when no worker fails, check_words_complicated does not end in an error,
\* whatever the number of processors: every word is checked and the coordinator
\* returns.
NoFailureNoError ==
    (complicated # {} /\ ~failed) => mpc # "crashed"

\* C6: once a worker has raised, check_words_complicated never returns and
\* main writes no file, and the coordinator ends by raising.
FailurePropagates ==
    /\ [](failed => (mpc \notin {"exit", "write", "done"} /\ output = NoFile))
    /\ (failed ~> (mpc = "crashed"))

\* A worker raised after the coordinator had collected a result of another
\* word, two workers running; the exception has left main.
FailurePropagatesWitness ==
    /\ failed
    /\ mpc = "crashed"
    /\ collected > 0
    /\ PoolWorkers(cpu) >= 2

\* C7: the set check_words_complicated returns depends on the complicated set
\* alone: not on the number of workers, on who checked which word or on the
\* order the results arrived in.
ReturnedSetDetermined ==
    (mpc = "write" /\ complicated # {}) => redundant = ExpectedRedundant(complicated)

\* Two workers ran and two words were each reported redundant, one of them
\* the cover of the other.
ReturnedSetDeterminedWitness ==
    /\ mpc = "write"
    /\ PoolWorkers(cpu) >= 2
    /\ \E p, q \in redundant : p # q /\ q \in CoverOf[p]
    /\ complicated \ redundant # {}

\* C8: the simple stage misses nothing: a pattern of the four shapes whose
\* language lies within that of another pattern of the set is returned.
NoFalseNegatives ==
    (mpc \in {"write", "done"} /\ input \subseteq FourShapes) =>
        \A p, q \in input :
            (p # q /\ Lang[p] \subseteq Lang[q]) => p \in simpleRedundant

\* C9: a complicated pattern that matches the test string of a simple pattern
\* the cross stage removed flags every string the simple pattern flags.
CrossStageSound ==
    \A p \in crossRedundant : \A c \in complicated :
        ReMatch(c, make_test_string_simple(p)) => Lang[p] \subseteq Lang[c]

====
